---- MODULE Spec2Model ----
(***************************************************************************)
(* Beat-synchronised deck rotation and warmup engine of                    *)
(* src/app/page.tsx (component DesertHaze).                                *)
(*                                                                         *)
(* Time is counted in whole seconds.  Math.random() is the rational        *)
(* rnd / RandDen with rnd in 0 .. RandDen-1.  Video ids are the positions  *)
(* 1 .. NumVideos of VIDEO_MANIFEST; NoVideo stands for "" and for an      *)
(* omitted argument, Undefined for the value of an out-of-range index.     *)
(*                                                                         *)
(* Timer ids (setInterval / setTimeout) of one deck are named by age:      *)
(* "cur" is the id returned to the most recent warmupDeck call of that     *)
(* deck, "old" any id returned to an earlier call.  A new warmupDeck call  *)
(* ages every id the deck still holds.                                     *)
(*                                                                         *)
(* The players (YouTube iframes) and the audio element are outside the     *)
(* program: what they answer (getPlayerState, getDuration, currentTime, an *)
(* exception, onReady, onError) is an input of the step that reads it, and *)
(* the commands sent to them (playVideo, pauseVideo, mute, seekTo,         *)
(* loadVideoById) leave the program's own variables unchanged; portCmds    *)
(* keeps, for each deck, the commands that the most recent step sent to    *)
(* its player and that returned normally, and portMuted the mute state     *)
(* those commands leave the player in.  onError is taken to come from a    *)
(* player that has reported onReady.                                       *)
(*                                                                         *)
(* React is outside the program as well: a setActiveDeck update is         *)
(* rendered and committed some time after the call, and the effect of      *)
(* line 138 runs some time after that commit and before the next render.   *)
(***************************************************************************)
EXTENDS Integers, Sequences, FiniteSets, TLC

\* ---------------------------------------------------------------- bounds
NumVideos == 2
RandDen == 4
TrackEnd == 11
MaxReadyDecks == 2
MaxEngineDecks == 1
MaxDuration == 30

\* ------------------------------------------------------ program constants
SKIP_SECONDS == 3
LOOP_HIGH == 10
LOOP_LOW == 5
RING_SIZE == 4
SEEK_TAIL == 5

NoVideo == 0
Undefined == 0 - 1

DECK_ORDER == <<"A", "B", "C", "D">>
DeckIds == {"A", "B", "C", "D"}
VIDEO_MANIFEST == [i \in 1 .. NumVideos |-> i]
Catalog == {VIDEO_MANIFEST[i] : i \in DOMAIN VIDEO_MANIFEST}
Rand == 0 .. (RandDen - 1)
ClockValues == 0 .. TrackEnd
BeatMaps == {<<2, 5, 9>>, <<2, 11>>, <<>>}
WarmupPhases == {"idle", "loading", "seeking", "ready"}
PortStates == {"PLAYING", "BUFFERING"}
Durations == {0, 30}
\* Clock samples of the engine as a whole: track start, the loop threshold,
\* track end.
EngineClock == {0, LOOP_LOW, TrackEnd}

VARIABLES
    initialized,          \* useState initialized
    pausedRef,            \* pausedRef.current
    beatFetch,            \* "pending" | "done" | "failed": fetch("/beat_map.json")
    beatMapRef,           \* beatMapRef.current
    currentBeatIndexRef,  \* currentBeatIndexRef.current
    lastTime,             \* closure variable lastTime of the beat sync effect
    beatProgress,         \* useState beatProgress
    activeDeckRef,        \* activeDeckRef.current
    playersRef,           \* playersRef.current[d] # null
    warmupPhaseRef,       \* warmupPhaseRef.current
    warmupPollRef,        \* warmupPollRef.current[d]: "null" or a timer id
    intervals,            \* live setInterval timers of each deck
    timeouts,             \* pending setTimeout timers of each deck
    deckVideoRef,         \* deckVideoRef.current
    failedVideosRef,      \* failedVideosRef.current
    portCmds,             \* commands the last step sent to each deck's player
    portMuted,            \* the player of each deck is muted
    errorInFlight,        \* id whose load raised an error not yet delivered
    activeDeck,           \* useState activeDeck, as last committed
    activeDeckUpdate,     \* setActiveDeck value not yet rendered, or "none"
    syncEffect,           \* value the pending effect of line 138 will write, or "none"
    mounted,              \* the component is mounted
    sel,                  \* last call of getRandomVideoId made on its own
    seek                  \* last seek offset computed on its own

schedVars == <<pausedRef, currentBeatIndexRef, lastTime, beatProgress, activeDeckRef>>
beatVars == <<beatFetch, beatMapRef>>
deckVars == <<warmupPhaseRef, warmupPollRef, intervals, timeouts, deckVideoRef>>
reactVars == <<activeDeck, activeDeckUpdate, syncEffect>>
vars == <<initialized, schedVars, beatVars, playersRef, deckVars, failedVideosRef,
          portCmds, portMuted, errorInFlight, reactVars, mounted, sel, seek>>

\* ------------------------------------------------------- getRandomVideoId
\* Math.floor(Math.random() * len)
RandomIndex(rnd, len) == (rnd * len) \div RandDen

\* seq[i] of a JavaScript array (0-based), undefined outside it
ElementAt(seq, i) == IF (i + 1) \in DOMAIN seq THEN seq[i + 1] ELSE Undefined

\* Mutant of Available: the filter forgets the failed set.
AvailableIgnoresFailed(exclude, failed) ==
    SelectSeq(VIDEO_MANIFEST, LAMBDA id : id # exclude)

\* VIDEO_MANIFEST.filter((id) => id !== exclude && !failed.has(id))
Available(exclude, failed) ==
    SelectSeq(VIDEO_MANIFEST, LAMBDA id : id # exclude /\ id \notin failed)

\* The id returned, and failedVideosRef.current as the call leaves it.
getRandomVideoId(exclude, failed, rnd) ==
    LET available == Available(exclude, failed) IN
    IF Len(available) = 0
    THEN [id |-> ElementAt(VIDEO_MANIFEST, RandomIndex(rnd, Len(VIDEO_MANIFEST))),
          failed |-> {}]
    ELSE [id |-> ElementAt(available, RandomIndex(rnd, Len(available))),
          failed |-> failed]

\* ------------------------------------------------------------ deck state
\* The refs keyed by deck id that warmupDeck and loadVideoOnDeck write.
\* A step starts with no command sent yet.
NoCmds == [d \in DeckIds |-> {}]

DeckState ==
    [phase |-> warmupPhaseRef, poll |-> warmupPollRef, intervals |-> intervals,
     timeouts |-> timeouts, video |-> deckVideoRef, cmds |-> NoCmds]

\* The mute state of the players once the commands cmds have been sent.
MutedAfter(muted, cmds) ==
    [d \in DeckIds |->
        IF "unMute" \in cmds[d] THEN FALSE
        ELSE IF "mute" \in cmds[d] THEN TRUE
        ELSE muted[d]]

SetDeckState(S) ==
    /\ warmupPhaseRef' = S.phase
    /\ warmupPollRef' = S.poll
    /\ intervals' = S.intervals
    /\ timeouts' = S.timeouts
    /\ deckVideoRef' = S.video
    /\ portCmds' = S.cmds
    /\ portMuted' = MutedAfter(portMuted, S.cmds)

\* clearInterval(id)
ClearInterval(ivs, id) == {i \in ivs : i.id # id}

\* The names of the deck's timers once a newer pair of timers exists.
AgeIntervals(ivs) == {[id |-> "old", shouldPause |-> i.shouldPause] : i \in ivs}
AgeTimeouts(tos) == IF tos = {} THEN {} ELSE {"old"}

\* Mutant of warmupDeck: the poll already running is not cancelled.
warmupDeckKeepsOldPoll(S, deckId, shouldPause) ==
    [S EXCEPT
       !.phase[deckId] = "loading",
       !.intervals[deckId] =
           AgeIntervals(@) \cup {[id |-> "cur", shouldPause |-> shouldPause]},
       !.poll[deckId] = "cur",
       !.timeouts[deckId] = AgeTimeouts(@) \cup {"cur"},
       !.cmds[deckId] = @ \cup {"playVideo", "mute"}]

\* warmupDeck; playVideo and mute (lines 267-268) are taken to return.
warmupDeck(S, deckId, shouldPause) ==
    LET kept == IF S.poll[deckId] # "null"
                THEN ClearInterval(S.intervals[deckId], S.poll[deckId])
                ELSE S.intervals[deckId]
    IN [S EXCEPT
          !.phase[deckId] = "loading",
          !.intervals[deckId] =
              AgeIntervals(kept) \cup {[id |-> "cur", shouldPause |-> shouldPause]},
          !.poll[deckId] = "cur",
          !.timeouts[deckId] = AgeTimeouts(S.timeouts[deckId]) \cup {"cur"},
          !.cmds[deckId] = @ \cup {"playVideo", "mute"}]

\* Mutant of loadVideoOnDeck: the id is assigned but no warmup is started.
loadVideoOnDeckNoWarmup(S, hasPlayer, deckId, videoId, shouldPause, raises) ==
    IF ~hasPlayer THEN S ELSE [S EXCEPT !.video[deckId] = videoId]

\* Mutant of loadVideoOnDeck: the deck that is loaded is unmuted.
loadVideoOnDeckUnmuted(S, hasPlayer, deckId, videoId, shouldPause, raises) ==
    IF ~hasPlayer THEN S
    ELSE LET S1 == [S EXCEPT !.video[deckId] = videoId]
             S2 == [S1 EXCEPT !.cmds[deckId] = @ \cup {"loadVideoById"}]
         IN IF raises THEN S1
            ELSE [warmupDeck(S2, deckId, shouldPause) EXCEPT
                    !.cmds[deckId] = (@ \ {"mute"}) \cup {"unMute"}]

\* raises: the load (lines 314-315) throws, which the catch swallows.
loadVideoOnDeck(S, hasPlayer, deckId, videoId, shouldPause, raises) ==
    IF ~hasPlayer THEN S
    ELSE LET S1 == [S EXCEPT !.video[deckId] = videoId]
             S2 == [S1 EXCEPT !.cmds[deckId] = @ \cup {"loadVideoById", "mute"}]
         IN IF raises THEN S1 ELSE warmupDeck(S2, deckId, shouldPause)

\* Mutant of pollStep: a playing port with a duration is taken as ready at once.
pollStepSkipsSeeking(S, deckId, iv, state, duration, raises) ==
    IF raises \/ (S.phase[deckId] \in {"loading", "seeking"} /\ state = "PLAYING"
                  /\ duration > 0)
    THEN [S EXCEPT !.intervals[deckId] = ClearInterval(@, iv.id),
                   !.poll[deckId] = "null",
                   !.phase[deckId] = "ready"]
    ELSE S

\* Mutant of pollStep: a poll step in which the port raises changes nothing,
\* so the poll fires again.
pollStepRetriesOnRaise(S, deckId, iv, state, duration, raises) ==
    LET phase == S.phase[deckId] IN
    IF raises THEN S
    ELSE IF phase = "loading" /\ state = "PLAYING" /\ duration > 0
    THEN [S EXCEPT !.phase[deckId] = "seeking"]
    ELSE IF phase = "seeking" /\ state = "PLAYING"
    THEN [S EXCEPT !.phase[deckId] = "ready",
                   !.intervals[deckId] = ClearInterval(@, iv.id),
                   !.poll[deckId] = "null"]
    ELSE S

\* Mutant of pollStep: the poll that reaches ready is left running.
pollStepKeepsPollWhenReady(S, deckId, iv, state, duration, raises) ==
    LET phase == S.phase[deckId] IN
    IF raises
    THEN [S EXCEPT !.intervals[deckId] = ClearInterval(@, iv.id),
                   !.poll[deckId] = "null",
                   !.phase[deckId] = "ready"]
    ELSE IF phase = "loading" /\ state = "PLAYING" /\ duration > 0
    THEN [S EXCEPT !.phase[deckId] = "seeking"]
    ELSE IF phase = "seeking" /\ state = "PLAYING"
    THEN [S EXCEPT !.phase[deckId] = "ready"]
    ELSE S

\* if (shouldPause) player.pauseVideo()
PauseWhenReady(shouldPause) == IF shouldPause THEN {"pauseVideo"} ELSE {}

\* One firing of the setInterval callback created by warmupDeck.  raises: a
\* port call of the step throws, so none of its commands returns.
pollStep(S, deckId, iv, state, duration, raises) ==
    LET phase == S.phase[deckId] IN
    IF raises
    THEN [S EXCEPT !.intervals[deckId] = ClearInterval(@, iv.id),
                   !.poll[deckId] = "null",
                   !.phase[deckId] = "ready"]
    ELSE IF phase = "loading" /\ state = "PLAYING" /\ duration > 0
    THEN [S EXCEPT !.phase[deckId] = "seeking",
                   !.cmds[deckId] = @ \cup {"seekTo"}]
    ELSE IF phase = "seeking" /\ state = "PLAYING"
    THEN [S EXCEPT !.phase[deckId] = "ready",
                   !.intervals[deckId] = ClearInterval(@, iv.id),
                   !.poll[deckId] = "null",
                   !.cmds[deckId] = @ \cup PauseWhenReady(iv.shouldPause)]
    ELSE S

\* Mutant of safetyTimeout: the timeout does not test whose poll is running.
safetyTimeoutUnguarded(S, deckId, pollId) ==
    [S EXCEPT !.timeouts[deckId] = @ \ {pollId},
              !.intervals[deckId] = {},
              !.poll[deckId] = "null",
              !.phase[deckId] = "ready"]

\* Mutant of safetyTimeout: the poll is cancelled but the phase is left alone.
safetyTimeoutKeepsPhase(S, deckId, pollId) ==
    LET S1 == [S EXCEPT !.timeouts[deckId] = @ \ {pollId}] IN
    IF S.poll[deckId] = pollId
    THEN [S1 EXCEPT !.intervals[deckId] = ClearInterval(@, pollId),
                    !.poll[deckId] = "null"]
    ELSE S1

\* The setTimeout callback created by warmupDeck (safety timeout).
safetyTimeout(S, deckId, pollId) ==
    LET S1 == [S EXCEPT !.timeouts[deckId] = @ \ {pollId}] IN
    IF S.poll[deckId] = pollId
    THEN [S1 EXCEPT !.intervals[deckId] = ClearInterval(@, pollId),
                    !.poll[deckId] = "null",
                    !.phase[deckId] = "ready"]
    ELSE S1

\* ------------------------------------------------------------- scheduler
IndexOf(deckId) == CHOOSE i \in DOMAIN DECK_ORDER : DECK_ORDER[i] = deckId

\* Mutant of NextDeck: the ring index is advanced by two.
NextDeckSkipsOne(deckId) == DECK_ORDER[(((IndexOf(deckId) - 1) + 2) % RING_SIZE) + 1]

\* DECK_ORDER[(DECK_ORDER.indexOf(currentDeckId) + 1) % 4]
NextDeck(deckId) == DECK_ORDER[(((IndexOf(deckId) - 1) + 1) % RING_SIZE) + 1]

\* Mutant of LoopDetected: any drop of the clock counts as a loop.
LoopDetectedOnAnyDrop(last, currentTime) == currentTime < last

\* lastTime > 10 && currentTime < 5
LoopDetected(last, currentTime) == last > LOOP_HIGH /\ currentTime < LOOP_LOW

\* Mutant of BeatCrossed: a cursor at the end of the map counts as a crossing.
BeatCrossedPastEnd(beats, idx, currentTime) ==
    idx >= Len(beats) \/ currentTime >= beats[idx + 1]

\* idx < beats.length && currentTime >= beats[idx]
BeatCrossed(beats, idx, currentTime) == idx < Len(beats) /\ currentTime >= beats[idx + 1]

\* --------------------------------------------------------- seek offset
Max(a, b) == IF a >= b THEN a ELSE b

\* Durations, in whole seconds, that a player reports for a loaded video.
SeekDurations == 1 .. MaxDuration

\* Math.max(safeStart + 1, duration - SKIP_SECONDS)
SafeEnd(duration) == Max(SKIP_SECONDS + 1, duration - SKIP_SECONDS)

\* The argument of seekTo (lines 277-280) in units of 1/RandDen second:
\* Math.max(safeStart, safeStart + Math.random() * (safeEnd - safeStart - 5)).
seekOffset(duration, rnd) ==
    LET safeStart == SKIP_SECONDS
        safeEnd == SafeEnd(duration)
        randomStart == safeStart * RandDen + rnd * (safeEnd - safeStart - SEEK_TAIL)
    IN Max(safeStart * RandDen, randomStart)

\* No seek offset computed yet.
NoSeek == [called |-> FALSE, duration |-> 0, rnd |-> 0, offset |-> 0]

\* No call of getRandomVideoId recorded yet.
NoCall ==
    [called |-> FALSE, exclude |-> NoVideo, failedBefore |-> {}, rnd |-> 0,
     id |-> NoVideo, failedAfter |-> {}]

\* ------------------------------------------------------------------ Init
Init ==
    /\ initialized = FALSE
    /\ pausedRef = FALSE
    /\ beatFetch = "pending"
    /\ beatMapRef = <<>>
    /\ currentBeatIndexRef = 0
    /\ lastTime = 0
    /\ beatProgress = [current |-> 0, total |-> 0]
    /\ activeDeckRef = "A"
    /\ playersRef = [d \in DeckIds |-> FALSE]
    /\ warmupPhaseRef = [d \in DeckIds |-> "idle"]
    /\ warmupPollRef = [d \in DeckIds |-> "null"]
    /\ intervals = [d \in DeckIds |-> {}]
    /\ timeouts = [d \in DeckIds |-> {}]
    /\ deckVideoRef = [d \in DeckIds |-> NoVideo]
    /\ failedVideosRef = {}
    /\ portCmds = NoCmds
    /\ sel = NoCall
    /\ seek = NoSeek
    /\ portMuted = [d \in DeckIds |-> FALSE]
    /\ errorInFlight = [d \in DeckIds |-> NoVideo]
    /\ activeDeck = "A"
    /\ activeDeckUpdate = "none"
    /\ syncEffect = "none"
    /\ mounted = TRUE

\* --------------------------------------------------------------- actions
\* fetch("/beat_map.json") resolves with data
BeatMapLoaded(data) ==
    /\ beatFetch = "pending"
    /\ beatFetch' = "done"
    /\ beatMapRef' = data
    /\ beatProgress' = [beatProgress EXCEPT !.total = Len(data)]
    /\ portCmds' = NoCmds
    /\ portMuted' = portMuted
    /\ UNCHANGED <<initialized, pausedRef, currentBeatIndexRef, lastTime, activeDeckRef,
                   playersRef, deckVars, failedVideosRef, sel, seek, errorInFlight, reactVars, mounted>>

\* fetch("/beat_map.json") rejects, or its body is not JSON
BeatMapFailed ==
    /\ beatFetch = "pending"
    /\ beatFetch' = "failed"
    /\ portCmds' = NoCmds
    /\ portMuted' = portMuted
    /\ UNCHANGED <<initialized, schedVars, beatMapRef, playersRef, deckVars,
                   failedVideosRef, sel, seek, errorInFlight, reactVars, mounted>>

\* handleInitialize: the four decks get their first ids; the players are
\* created asynchronously (OnReady).
HandleInitialize(rnds) ==
    /\ mounted
    /\ ~initialized
    /\ initialized' = TRUE
    /\ deckVideoRef' =
          [d \in DeckIds |-> getRandomVideoId(NoVideo, failedVideosRef, rnds[d]).id]
    /\ portCmds' = NoCmds
    /\ portMuted' = portMuted
    /\ UNCHANGED <<schedVars, beatVars, playersRef, warmupPhaseRef, warmupPollRef,
                   intervals, timeouts, failedVideosRef, sel, seek, errorInFlight, reactVars, mounted>>

\* onReady of deck d's player: playersRef is bound and the first warmup runs
\* (deck A keeps playing, the others pause when ready).
OnReadyWithin(d, maxReady) ==
    /\ initialized
    /\ ~playersRef[d]
    /\ Cardinality({e \in DeckIds : playersRef[e]}) < maxReady
    /\ playersRef' = [playersRef EXCEPT ![d] = TRUE]
    /\ SetDeckState(warmupDeck([DeckState EXCEPT !.cmds[d] = {"mute"}], d, d # "A"))
    /\ UNCHANGED <<initialized, schedVars, beatVars, failedVideosRef, sel, seek, errorInFlight, reactVars, mounted>>

OnReady(d) == OnReadyWithin(d, MaxReadyDecks)

\* A firing of deck d's poll iv, the port answering state and duration, or
\* raising.
PollStep(d, iv, state, duration, raises) ==
    /\ iv \in intervals[d]
    /\ SetDeckState(pollStep(DeckState, d, iv, state, duration, raises))
    /\ UNCHANGED <<initialized, schedVars, beatVars, playersRef, failedVideosRef, sel, seek,
                   errorInFlight, reactVars, mounted>>

\* A pending safety timeout of deck d fires.
TimeoutFire(d, pollId) ==
    /\ pollId \in timeouts[d]
    /\ SetDeckState(safetyTimeout(DeckState, d, pollId))
    /\ UNCHANGED <<initialized, schedVars, beatVars, playersRef, failedVideosRef, sel, seek,
                   errorInFlight, reactVars, mounted>>

\* Mutant of handlePlayerError: the failing id is not added to the failed set.
handlePlayerErrorNoExclusion(S, failed, deckId, rnd, raises) ==
    LET failedVid == S.video[deckId]
        pick == getRandomVideoId(failedVid, failed, rnd)
        S1 == [S EXCEPT !.video[deckId] = pick.id]
    IN [decks |-> loadVideoOnDeck(S1, TRUE, deckId, pick.id, TRUE, raises),
        failed |-> pick.failed,
        replacement |-> pick.id]

\* handlePlayerError, called by onError of deck d's player.
handlePlayerError(S, failed, deckId, rnd, raises) ==
    LET failedVid == S.video[deckId]
        failed1 == IF failedVid # NoVideo THEN failed \cup {failedVid} ELSE failed
        pick == getRandomVideoId(failedVid, failed1, rnd)
        S1 == [S EXCEPT !.video[deckId] = pick.id]
    IN [decks |-> loadVideoOnDeck(S1, TRUE, deckId, pick.id, TRUE, raises),
        failed |-> pick.failed,
        replacement |-> pick.id]

PlayerError(d, rnd, raises) ==
    /\ playersRef[d]
    /\ LET r == handlePlayerError(DeckState, failedVideosRef, d, rnd, raises) IN
          /\ SetDeckState(r.decks)
          /\ failedVideosRef' = r.failed
    /\ UNCHANGED <<initialized, schedVars, beatVars, playersRef, sel, seek, errorInFlight, reactVars, mounted>>

\* The player of deck d raises an error for the id loaded on it; the onError
\* event is delivered later.
PortRaisesError(d) ==
    /\ playersRef[d]
    /\ errorInFlight[d] = NoVideo
    /\ errorInFlight' = [errorInFlight EXCEPT ![d] = deckVideoRef[d]]
    /\ portCmds' = NoCmds
    /\ portMuted' = portMuted
    /\ UNCHANGED <<initialized, schedVars, beatVars, playersRef, deckVars,
                   failedVideosRef, reactVars, mounted, sel, seek>>

\* onError of deck d's player is delivered: handlePlayerError(d) runs.
DeliverError(d, rnd, raises) ==
    /\ errorInFlight[d] # NoVideo
    /\ errorInFlight' = [errorInFlight EXCEPT ![d] = NoVideo]
    /\ LET r == handlePlayerError(DeckState, failedVideosRef, d, rnd, raises) IN
          /\ SetDeckState(r.decks)
          /\ failedVideosRef' = r.failed
    /\ UNCHANGED <<initialized, schedVars, beatVars, playersRef, reactVars, mounted,
                   sel, seek>>

\* React renders and commits the pending setActiveDeck update; the effects of
\* the commit before it have run by then.  The effect of line 138 is queued
\* when the committed value changed.
Render ==
    /\ activeDeckUpdate # "none"
    /\ syncEffect = "none"
    /\ activeDeck' = activeDeckUpdate
    /\ activeDeckUpdate' = "none"
    /\ syncEffect' = IF activeDeckUpdate # activeDeck THEN activeDeckUpdate ELSE "none"
    /\ portCmds' = NoCmds
    /\ portMuted' = portMuted
    /\ UNCHANGED <<initialized, schedVars, beatVars, playersRef, deckVars,
                   failedVideosRef, errorInFlight, mounted, sel, seek>>

\* useEffect(() => { activeDeckRef.current = activeDeck; }, [activeDeck])
SyncEffectRuns ==
    /\ syncEffect # "none"
    /\ activeDeckRef' = syncEffect
    /\ syncEffect' = "none"
    /\ portCmds' = NoCmds
    /\ portMuted' = portMuted
    /\ UNCHANGED <<initialized, pausedRef, currentBeatIndexRef, lastTime, beatProgress,
                   beatVars, playersRef, deckVars, failedVideosRef, errorInFlight,
                   activeDeck, activeDeckUpdate, mounted, sel, seek>>

\* The component unmounts: the cleanup of the beat sync effect cancels the
\* pending animation frame (line 483).  No other cleanup touches the decks.
Teardown ==
    /\ mounted
    /\ mounted' = FALSE
    /\ portCmds' = NoCmds
    /\ portMuted' = portMuted
    /\ UNCHANGED <<initialized, schedVars, beatVars, playersRef, deckVars,
                   failedVideosRef, errorInFlight, reactVars, sel, seek>>

\* The commands togglePause sends: on resume playVideo to the active deck,
\* on pause pauseVideo to every deck that has a player.
togglePauseCmds(paused, active, players) ==
    [d \in DeckIds |->
        IF ~players[d] THEN {}
        ELSE IF paused THEN (IF d = active THEN {"playVideo"} ELSE {})
        ELSE {"pauseVideo"}]

\* togglePause
TogglePause ==
    /\ mounted
    /\ initialized
    /\ pausedRef' = ~pausedRef
    /\ portCmds' = togglePauseCmds(pausedRef, activeDeckRef, playersRef)
    /\ portMuted' = portMuted
    /\ UNCHANGED <<initialized, currentBeatIndexRef, lastTime, beatProgress, activeDeckRef,
                   beatVars, playersRef, deckVars, failedVideosRef, sel, seek, errorInFlight, reactVars, mounted>>

\* Mutant of LoopCheck: the loop also puts the ring back to its first deck.
LoopCheckResetsRing(idx, active, last, currentTime) ==
    IF LoopDetected(last, currentTime)
    THEN [cursor |-> 0, active |-> DECK_ORDER[1]]
    ELSE [cursor |-> idx, active |-> active]

\* Loop detection (lines 443-446), as it leaves the rotation refs.
LoopCheck(idx, active, last, currentTime) ==
    [cursor |-> IF LoopDetected(last, currentTime) THEN 0 ELSE idx,
     active |-> active]

\* Mutant of AdvanceCursor: the cursor jumps past every beat the clock has reached.
AdvanceCursorPastReached(beats, idx, currentTime) ==
    Cardinality({i \in DOMAIN beats : beats[i] <= currentTime})

\* currentBeatIndexRef.current = idx + 1
AdvanceCursor(beats, idx, currentTime) == idx + 1

\* Mutant of ProgressAfterCrossing: the index before the advance is reported.
ProgressBeforeAdvance(beats, idx) == [current |-> idx, total |-> Len(beats)]

\* setBeatProgress({ current: idx + 1, total: beats.length })
ProgressAfterCrossing(beats, idx) == [current |-> idx + 1, total |-> Len(beats)]

\* Mutant of PausedReturn: the tick runs its beat logic while paused.
PausedReturnNever(paused) == FALSE

\* if (pausedRef.current) return
PausedReturn(paused) == paused

\* nextPlayer.playVideo(), when the next deck has a player
PlayNext(S, hasPlayer, deckId) ==
    IF hasPlayer THEN [S EXCEPT !.cmds[deckId] = @ \cup {"playVideo"}] ELSE S

\* One animation frame: tick, with audio.currentTime = currentTime.
Tick(currentTime, rnd, raises) ==
    /\ initialized
    /\ mounted
    /\ IF PausedReturn(pausedRef)
       THEN /\ portCmds' = NoCmds
            /\ portMuted' = portMuted
            /\ UNCHANGED <<schedVars, deckVars, failedVideosRef, reactVars>>
       ELSE LET looped == LoopCheck(currentBeatIndexRef, activeDeckRef, lastTime,
                                    currentTime)
                beats == beatMapRef
                idx == looped.cursor
            IN /\ lastTime' = currentTime
               /\ pausedRef' = pausedRef
               /\ IF BeatCrossed(beats, idx, currentTime)
                  THEN LET currentDeckId == looped.active
                           nextDeckId == NextDeck(currentDeckId)
                           pick == getRandomVideoId(deckVideoRef[currentDeckId],
                                                    failedVideosRef, rnd)
                       IN /\ activeDeckRef' = nextDeckId
                          /\ activeDeckUpdate' = nextDeckId
                          /\ UNCHANGED <<activeDeck, syncEffect>>
                          /\ failedVideosRef' = pick.failed
                          /\ SetDeckState(loadVideoOnDeck(
                                PlayNext(DeckState, playersRef[nextDeckId], nextDeckId),
                                playersRef[currentDeckId], currentDeckId, pick.id,
                                TRUE, raises))
                          /\ currentBeatIndexRef' = AdvanceCursor(beats, idx, currentTime)
                          /\ beatProgress' = ProgressAfterCrossing(beats, idx)
                  ELSE /\ currentBeatIndexRef' = idx
                       /\ activeDeckRef' = looped.active
                       /\ portCmds' = NoCmds
                       /\ portMuted' = portMuted
                       /\ UNCHANGED <<beatProgress, deckVars, failedVideosRef, reactVars>>
    /\ UNCHANGED <<initialized, beatVars, playersRef, sel, seek, errorInFlight, mounted>>

\* failedVideosRef.current.add(id), the first step of handlePlayerError, taken
\* on its own.
AddFailed(id) ==
    /\ failedVideosRef' = failedVideosRef \cup {id}
    /\ portCmds' = NoCmds
    /\ portMuted' = portMuted
    /\ UNCHANGED <<initialized, schedVars, beatVars, playersRef, deckVars, sel, seek, errorInFlight, reactVars, mounted>>

\* getRandomVideoId called on its own, with an argument that some call site
\* gives it: none (handleInitialize) or a deck's id (tick, handlePlayerError).
CallGetRandomVideoId(exclude, rnd) ==
    /\ LET pick == getRandomVideoId(exclude, failedVideosRef, rnd) IN
          /\ sel' = [called |-> TRUE, exclude |-> exclude,
                     failedBefore |-> failedVideosRef, rnd |-> rnd,
                     id |-> pick.id, failedAfter |-> pick.failed]
          /\ failedVideosRef' = pick.failed
    /\ portCmds' = NoCmds
    /\ portMuted' = portMuted
    /\ UNCHANGED <<initialized, schedVars, beatVars, playersRef, deckVars, seek, errorInFlight, reactVars, mounted>>

\* The offset of lines 277-280 computed on its own, for a duration the port
\* reports and a draw of Math.random().
CallSeekOffset(duration, rnd) ==
    /\ seek' = [called |-> TRUE, duration |-> duration, rnd |-> rnd,
                offset |-> seekOffset(duration, rnd)]
    /\ portCmds' = NoCmds
    /\ portMuted' = portMuted
    /\ UNCHANGED <<initialized, schedVars, beatVars, playersRef, deckVars,
                   failedVideosRef, sel, errorInFlight, reactVars, mounted>>

\* ---------------------------------------------------------- specifications
TickSome == \E t \in ClockValues, rnd \in Rand, raises \in BOOLEAN : Tick(t, rnd, raises)

SchedNext ==
    \/ \E data \in BeatMaps : BeatMapLoaded(data)
    \/ BeatMapFailed
    \/ \E rnds \in [DeckIds -> Rand] : HandleInitialize(rnds)
    \/ TogglePause
    \/ TickSome

SpecSched == Init /\ [][SchedNext]_vars

DeckNext ==
    \/ \E rnds \in [DeckIds -> Rand] : HandleInitialize(rnds)
    \/ \E d \in DeckIds : OnReady(d)
    \/ \E d \in DeckIds : \E iv \in intervals[d] :
          \E state \in PortStates, duration \in Durations, raises \in BOOLEAN :
             PollStep(d, iv, state, duration, raises)
    \/ \E d \in DeckIds : \E pollId \in timeouts[d] : TimeoutFire(d, pollId)
    \/ \E d \in DeckIds, rnd \in Rand, raises \in BOOLEAN : PlayerError(d, rnd, raises)

SpecDeck == Init /\ [][DeckNext]_vars

SelectorNext ==
    \/ \E id \in Catalog : AddFailed(id)
    \/ \E exclude \in Catalog \cup {NoVideo}, rnd \in Rand :
          CallGetRandomVideoId(exclude, rnd)

SpecSelector == Init /\ [][SelectorNext]_vars

SeekNext == \E duration \in SeekDurations, rnd \in Rand : CallSeekOffset(duration, rnd)

SpecSeek == Init /\ [][SeekNext]_vars

\* The scheduler and the decks together, while at most MaxEngineDecks players
\* have reported ready, the four first ids drawn alike, and the clock sampled
\* at EngineClock.
EngineNext ==
    \/ \E data \in BeatMaps : BeatMapLoaded(data)
    \/ BeatMapFailed
    \/ \E r \in Rand : HandleInitialize([d \in DeckIds |-> r])
    \/ \E d \in DeckIds : OnReadyWithin(d, MaxEngineDecks)
    \/ \E d \in DeckIds : \E iv \in intervals[d] :
          \E state \in PortStates, duration \in Durations, raises \in BOOLEAN :
             PollStep(d, iv, state, duration, raises)
    \/ \E d \in DeckIds : \E pollId \in timeouts[d] : TimeoutFire(d, pollId)
    \/ \E d \in DeckIds, rnd \in Rand, raises \in BOOLEAN : PlayerError(d, rnd, raises)
    \/ TogglePause
    \/ \E t \in EngineClock, rnd \in Rand, raises \in BOOLEAN : Tick(t, rnd, raises)

SpecEngine == Init /\ [][EngineNext]_vars

\* Errors that are delivered some time after the player raised them, with the
\* scheduler recycling decks in between; every load succeeds, so the id on a
\* player is the id its deck is assigned.
StaleErrorNext ==
    \/ \E data \in BeatMaps : BeatMapLoaded(data)
    \/ \E r \in Rand : HandleInitialize([d \in DeckIds |-> r])
    \/ \E d \in DeckIds : OnReadyWithin(d, MaxEngineDecks)
    \/ \E t \in EngineClock, rnd \in Rand : Tick(t, rnd, FALSE)
    \/ \E d \in DeckIds : PortRaisesError(d)
    \/ \E d \in DeckIds, rnd \in Rand : DeliverError(d, rnd, FALSE)

SpecStaleError == Init /\ [][StaleErrorNext]_vars

\* The scheduler together with React's rendering of the active deck.
SyncNext ==
    \/ \E data \in BeatMaps : BeatMapLoaded(data)
    \/ \E r \in Rand : HandleInitialize([d \in DeckIds |-> r])
    \/ \E t \in EngineClock, rnd \in Rand : Tick(t, rnd, FALSE)
    \/ Render
    \/ SyncEffectRuns

SpecSync == Init /\ [][SyncNext]_vars

\* The engine up to and after its teardown; players report ready only while
\* the component is mounted.
TeardownNext ==
    \/ \E data \in BeatMaps : BeatMapLoaded(data)
    \/ \E r \in Rand : HandleInitialize([d \in DeckIds |-> r])
    \/ \E d \in DeckIds : mounted /\ OnReadyWithin(d, MaxEngineDecks)
    \/ \E d \in DeckIds : \E iv \in intervals[d] :
          \E state \in PortStates, duration \in Durations, raises \in BOOLEAN :
             PollStep(d, iv, state, duration, raises)
    \/ \E d \in DeckIds : \E pollId \in timeouts[d] : TimeoutFire(d, pollId)
    \/ \E t \in EngineClock, rnd \in Rand : Tick(t, rnd, FALSE)
    \/ Teardown

SpecTeardown == Init /\ [][TeardownNext]_vars

\* Timers fire: the safety timeout of a deck's most recent warmup is not
\* postponed for ever.
SpecDeckFair == SpecDeck /\ \A d \in DeckIds : WF_vars(TimeoutFire(d, "cur"))

\* ------------------------------------------------------------ the claims
\* The ring A -> B -> C -> D -> A, written out.
RingSuccessor == [d \in DeckIds |->
    IF d = "A" THEN "B" ELSE IF d = "B" THEN "C" ELSE IF d = "C" THEN "D" ELSE "A"]

\* The cursor a non-paused tick's crossing check reads, from the step itself:
\* lastTime' is the tick's clock sample.
StepCursor == IF lastTime > 10 /\ lastTime' < 5 THEN 0 ELSE currentBeatIndexRef

StepIsUnpausedTick == TickSome /\ ~pausedRef

\* The step is a tick that crosses the beat at StepCursor.
StepCrosses ==
    /\ StepIsUnpausedTick
    /\ StepCursor < Len(beatMapRef)
    /\ lastTime' >= beatMapRef[StepCursor + 1]

C2_OneCrossingPerTick ==
    [][StepIsUnpausedTick =>
          IF StepCrosses
          THEN /\ currentBeatIndexRef' = StepCursor + 1
               /\ activeDeckRef' = RingSuccessor[activeDeckRef]
          ELSE /\ currentBeatIndexRef' = StepCursor
               /\ activeDeckRef' = activeDeckRef]_vars

\* The tick that sampled 9 crossed only the beat at index 0 of <<2, 5, 9>>.
C2_Witness ==
    /\ beatMapRef = <<2, 5, 9>>
    /\ lastTime = 9
    /\ currentBeatIndexRef = 1
    /\ beatProgress.current = 1
    /\ activeDeckRef = "B"

\* C7: a non-paused tick whose sample is below 5 while the previous sample was
\* above 10 sets the cursor to 0 before its crossing check (so it ends at 0,
\* or at 1 when the first beat is crossed in the same tick); no other step
\* lowers the cursor.
C7_LoopResetsCursor ==
    [][/\ (StepIsUnpausedTick /\ lastTime > 10 /\ lastTime' < 5) =>
            currentBeatIndexRef' =
               IF Len(beatMapRef) > 0 /\ lastTime' >= beatMapRef[1] THEN 1 ELSE 0
       /\ currentBeatIndexRef' < currentBeatIndexRef =>
            (StepIsUnpausedTick /\ lastTime > 10 /\ lastTime' < 5)]_vars

\* The cursor is back at 0 although beats were crossed before the wrap.
C7_Witness ==
    /\ currentBeatIndexRef = 0
    /\ beatProgress.current = 2
    /\ lastTime < 5

\* C8: the tick that crosses the beat at index i reports progress (i+1)/n;
\* with the map <<2, 5, 9>> and deck A active, the crossing at 2 makes B
\* active with progress 1/3 and the crossing at 5 makes C active with 2/3.
C8_ProgressAfterCrossing ==
    [][/\ StepCrosses =>
            beatProgress' = [current |-> StepCursor + 1, total |-> Len(beatMapRef)]
       /\ (/\ StepIsUnpausedTick /\ beatMapRef = <<2, 5, 9>>
           /\ activeDeckRef = "A" /\ StepCursor = 0 /\ lastTime' = 2) =>
            (activeDeckRef' = "B" /\ beatProgress' = [current |-> 1, total |-> 3])
       /\ (/\ StepIsUnpausedTick /\ beatMapRef = <<2, 5, 9>>
           /\ activeDeckRef = "B" /\ StepCursor = 1 /\ lastTime' = 5) =>
            (activeDeckRef' = "C" /\ beatProgress' = [current |-> 2, total |-> 3])]_vars

C8_Witness ==
    /\ beatMapRef = <<2, 5, 9>>
    /\ lastTime = 5
    /\ activeDeckRef = "C"
    /\ currentBeatIndexRef = 2
    /\ beatProgress = [current |-> 2, total |-> 3]

\* C9: the tick that detects the loop (sample below 5 after a sample above 10)
\* leaves the active deck where it was unless it also crosses beatMap[0], and
\* then the deck promoted is the ring successor of the deck active before the
\* loop; at cursor 0 a crossing always promotes that successor.
C9_LoopKeepsActiveDeck ==
    [][/\ (StepIsUnpausedTick /\ lastTime > 10 /\ lastTime' < 5) =>
            \/ currentBeatIndexRef' = 0 /\ activeDeckRef' = activeDeckRef
            \/ /\ currentBeatIndexRef' = 1
               /\ lastTime' >= beatMapRef[1]
               /\ activeDeckRef' = RingSuccessor[activeDeckRef]
       /\ (StepCrosses /\ currentBeatIndexRef = 0) =>
            activeDeckRef' = RingSuccessor[activeDeckRef]]_vars

\* After the loop the cursor is 0 and deck C, promoted before it, is still active.
C9_Witness ==
    /\ beatMapRef = <<2, 5, 9>>
    /\ currentBeatIndexRef = 0
    /\ lastTime < 2
    /\ activeDeckRef = "C"
    /\ beatProgress = [current |-> 2, total |-> 3]

\* The step is handlePlayerError for deck d.
StepIsPlayerError(d) == \E rnd \in Rand, raises \in BOOLEAN : PlayerError(d, rnd, raises)

\* C3 (as stated): whenever the catalog has at least two entries, the id that
\* handlePlayerError assigns to the failing deck differs from the id that
\* just failed on it.
C3_ReplacementDiffers ==
    [][\A d \in DeckIds :
          (StepIsPlayerError(d) /\ Cardinality(Catalog) >= 2) =>
             deckVideoRef'[d] # deckVideoRef[d]]_vars

\* C4 (as stated): getRandomVideoId returns a catalog member, and one outside
\* the failed set as it stood at the call unless that set was the whole
\* catalog, in which case the set is cleared.
C4_Original ==
    sel.called =>
       /\ sel.id \in Catalog
       /\ IF sel.failedBefore = Catalog
          THEN sel.failedAfter = {}
          ELSE sel.id \notin sel.failedBefore

\* C4 (amended): getRandomVideoId returns a catalog member, and one outside
\* the failed set as it stood at the call unless every catalog member was in
\* that set or was the excluded argument, in which case the set is cleared.
C4_Amended ==
    sel.called =>
       /\ sel.id \in Catalog
       /\ IF Catalog \subseteq (sel.failedBefore \cup {sel.exclude})
          THEN sel.failedAfter = {}
          ELSE sel.id \notin sel.failedBefore

\* The failed set held every id but the excluded one: it was cleared and an
\* id that had been in it was returned.
C4_Witness ==
    /\ sel.called
    /\ sel.exclude \in Catalog
    /\ sel.failedBefore = Catalog \ {sel.exclude}
    /\ sel.failedAfter = {}
    /\ sel.id \in sel.failedBefore

\* C5: a poll step in which the port does not raise moves the phase only from
\* loading to seeking or from seeking to ready, never from loading to ready,
\* and it enters seeking only when the port answered PLAYING with a
\* positive duration.
C5_PhaseOrder ==
    [][\A d \in DeckIds : \A iv \in intervals[d] :
          \A state \in PortStates, duration \in Durations :
             PollStep(d, iv, state, duration, FALSE) =>
                /\ \/ warmupPhaseRef'[d] = warmupPhaseRef[d]
                   \/ warmupPhaseRef[d] = "loading" /\ warmupPhaseRef'[d] = "seeking"
                   \/ warmupPhaseRef[d] = "seeking" /\ warmupPhaseRef'[d] = "ready"
                /\ (warmupPhaseRef[d] = "loading" /\ warmupPhaseRef'[d] = "seeking") =>
                      (state = "PLAYING" /\ duration > 0)]_vars

\* A poll has taken a deck to seeking, and another deck through to ready.
C5_Witness ==
    \E d, e \in DeckIds :
       /\ warmupPhaseRef[d] = "seeking" /\ warmupPollRef[d] = "cur"
       /\ warmupPhaseRef[e] = "ready" /\ timeouts[e] = {"cur"}

C11_OneLivePoll ==
    \A d \in DeckIds :
       /\ Cardinality(intervals[d]) <= 1
       /\ \A iv \in intervals[d] : iv.id = warmupPollRef[d]

\* A deck recycled by a crossing and hit by an error holds one poll while the
\* timeout of an earlier warmup of it is still pending.
C11_Witness ==
    \E d \in DeckIds :
       /\ timeouts[d] = {"cur", "old"}
       /\ Cardinality(intervals[d]) = 1
       /\ currentBeatIndexRef >= 1
       /\ failedVideosRef # {}

\* C12: a tick that runs while the engine is paused leaves the active deck,
\* the beat cursor, the reported progress, every deck's warmup state and
\* assigned id and the failed set as they were, and sends no command to any
\* player, whatever the clock sample and the beat map.
C12_PausedTickIdle ==
    [][(TickSome /\ pausedRef) =>
          /\ UNCHANGED <<activeDeckRef, currentBeatIndexRef, beatProgress, lastTime>>
          /\ UNCHANGED <<deckVars, failedVideosRef>>
          /\ portCmds' = NoCmds]_vars

\* The engine is paused with the active deck's player present and beats still
\* ahead of the cursor, and the step before sent no command.
C12_Witness ==
    /\ pausedRef
    /\ playersRef[activeDeckRef]
    /\ currentBeatIndexRef < Len(beatMapRef)
    /\ currentBeatIndexRef >= 1
    /\ portCmds = NoCmds

\* C13: once the load of the beat map has failed the map is empty, and
\* whatever ticks run, the active deck is the first deck, the cursor is 0 and
\* the progress reported is 0/0.
C13_FailedMapIdles ==
    beatFetch = "failed" =>
       /\ beatMapRef = <<>>
       /\ activeDeckRef = DECK_ORDER[1]
       /\ currentBeatIndexRef = 0
       /\ beatProgress = [current |-> 0, total |-> 0]

\* The load failed and a non-paused tick has sampled the end of the track.
C13_Witness ==
    /\ beatFetch = "failed"
    /\ initialized
    /\ ~pausedRef
    /\ lastTime = TrackEnd

\* C14 (as stated): the warmup that handlePlayerError starts for the failing
\* deck is non-pausing: the poll it arms sends no pauseVideo when it reaches
\* ready.
C14_ErrorWarmupNonPausing ==
    [][\A d \in DeckIds :
          (\E rnd \in Rand : PlayerError(d, rnd, FALSE)) =>
             \A iv \in intervals'[d] :
                iv.id = "cur" => PauseWhenReady(iv.shouldPause) = {}]_vars

\* The other decks of a deck, as the refs keyed by deck id see them.
OthersUnchanged(d) ==
    \A e \in DeckIds \ {d} :
       /\ deckVideoRef'[e] = deckVideoRef[e]
       /\ warmupPhaseRef'[e] = warmupPhaseRef[e]
       /\ warmupPollRef'[e] = warmupPollRef[e]
       /\ intervals'[e] = intervals[e]
       /\ timeouts'[e] = timeouts[e]

C16_PollNeverPausesActive ==
    [][\A d \in DeckIds : \A iv \in intervals[d] :
          \A state \in PortStates, duration \in Durations :
             (PollStep(d, iv, state, duration, FALSE) /\ ~pausedRef /\ d = activeDeckRef) =>
                "pauseVideo" \notin portCmds'[d]]_vars

\* C17: a poll step in which the port raises stops that poll, clears the
\* deck's poll handle and forces the phase to ready; it arms no timer, sends
\* no command, and changes no deck's id and nothing of any other deck.
C17_PollRaiseIsTerminal ==
    [][\A d \in DeckIds : \A iv \in intervals[d] :
          \A state \in PortStates, duration \in Durations :
             PollStep(d, iv, state, duration, TRUE) =>
                /\ iv \notin intervals'[d]
                /\ intervals'[d] = {}
                /\ warmupPollRef'[d] = "null"
                /\ warmupPhaseRef'[d] = "ready"
                /\ timeouts' = timeouts
                /\ deckVideoRef' = deckVideoRef
                /\ failedVideosRef' = failedVideosRef
                /\ portCmds' = NoCmds
                /\ OthersUnchanged(d)]_vars

\* A pause-when-ready deck is ready with no poll, its safety timeout still
\* pending, and the step before sent no pauseVideo.
C17_Witness ==
    \E d \in DeckIds \ {"A"} :
       /\ playersRef[d]
       /\ warmupPhaseRef[d] = "ready"
       /\ warmupPollRef[d] = "null"
       /\ intervals[d] = {}
       /\ timeouts[d] = {"cur"}
       /\ failedVideosRef = {}
       /\ portCmds = NoCmds

\* C18 (as stated): for every positive duration the offset passed to seekTo
\* lies in [SKIP_SECONDS, duration - SKIP_SECONDS] (offsets in units of
\* 1/RandDen second).
C18_OffsetInWindow ==
    seek.called =>
       /\ SKIP_SECONDS * RandDen <= seek.offset
       /\ seek.offset <= (seek.duration - SKIP_SECONDS) * RandDen

\* C19 (as stated): a deck has at most one live poll and at most one pending
\* safety timeout at every instant.
C19_OneTimerOfEachKind ==
    \A d \in DeckIds :
       /\ Cardinality(intervals[d]) <= 1
       /\ Cardinality(timeouts[d]) <= 1

\* C20: when the safety timeout of an earlier warmup of a deck fires after a
\* later warmup of that deck has started, no deck's phase, poll handle, live
\* poll or id changes; only that timeout is gone.
C20_StaleTimeoutIdle ==
    [][\A d \in DeckIds :
          TimeoutFire(d, "old") =>
             /\ UNCHANGED <<warmupPhaseRef, warmupPollRef, intervals, deckVideoRef>>
             /\ timeouts' = [timeouts EXCEPT ![d] = @ \ {"old"}]
             /\ portCmds' = NoCmds]_vars

\* A deck restarted by the error handler is still seeking under its latest
\* poll with only the latest timeout pending, and the step before sent no
\* command.
C20_Witness ==
    \E d \in DeckIds :
       /\ \A e \in DeckIds \ {d} : ~playersRef[e]
       /\ failedVideosRef # {}
       /\ warmupPhaseRef[d] = "seeking"
       /\ warmupPollRef[d] = "cur"
       /\ timeouts[d] = {"cur"}
       /\ portCmds = NoCmds

\* C21 (as stated): when the error event of a deck is delivered, the only id
\* that can enter the failed set is the id whose load raised the error, also
\* when the deck has been given another id in between.
C21_FailedIdIsErroredId ==
    [][\A d \in DeckIds :
          (\E rnd \in Rand : DeliverError(d, rnd, FALSE)) =>
             failedVideosRef' \subseteq (failedVideosRef \cup {errorInFlight[d]})]_vars

LatestPromotion == IF activeDeckUpdate # "none" THEN activeDeckUpdate ELSE activeDeck

\* C23 (as stated): the active deck the tick reads is always the deck promoted
\* by the most recent crossing; the synchronisation effect never writes an
\* older value over it.
C23_RefIsLatestPromotion == activeDeckRef = LatestPromotion

\* C24 (as stated): after every non-paused tick the index of the reported
\* progress equals the beat cursor and its total the length of the beat map,
\* also after the tick in which loop detection resets the cursor.
C24_ProgressTracksCursor ==
    [][StepIsUnpausedTick =>
          /\ beatProgress'.current = currentBeatIndexRef'
          /\ beatProgress'.total = Len(beatMapRef')]_vars

\* C25: every deck that has a player is muted in every state; no step sends
\* unMute to any deck; every step that loads a video on a deck and the
\* onReady step that binds a deck's player send mute to it.
C25_DecksStayMuted ==
    /\ [](\A d \in DeckIds :
            /\ playersRef[d] => portMuted[d]
            /\ "unMute" \notin portCmds[d])
    /\ [][\A d \in DeckIds :
            /\ "loadVideoById" \in portCmds'[d] => "mute" \in portCmds'[d]
            /\ (playersRef'[d] /\ ~playersRef[d]) => "mute" \in portCmds'[d]]_vars

\* After crossings, and not paused, the active deck has a player that was
\* just told to play and is muted.
C25_Witness ==
    /\ currentBeatIndexRef >= 1
    /\ ~pausedRef
    /\ playersRef[activeDeckRef]
    /\ portCmds[activeDeckRef] = {"playVideo"}
    /\ portMuted[activeDeckRef]

\* C26 (as stated): after teardown no tick runs and no warmup poll or safety
\* timeout of any deck fires: the clock sample, the timers and the phases
\* stay as teardown left them.
C26_TeardownStopsTimers ==
    [][~mounted =>
          /\ lastTime' = lastTime
          /\ intervals' = intervals
          /\ timeouts' = timeouts
          /\ warmupPhaseRef' = warmupPhaseRef]_vars

====
